---- MODULE Spec2Model ----
(***************************************************************************)
(* The request/response dashboards src/flask/app.py ("flask") and          *)
(* src/flask2/app1.py ("flask2"): the loader, the module-level constants   *)
(* computed from the loaded frame, the filter pipeline of index() and the  *)
(* two aggregates (annual trend, yearly summary).  Of the interactive      *)
(* dashboard src/backnew.py ("streamlit"): the cached loader and the       *)
(* filter, sort and detail part of the script that every interaction       *)
(* re-runs.                                                                *)
(*                                                                         *)
(* Data representation.  A Python string is a sequence of one-character    *)
(* strings; a missing cell (NaN / None) of a text column is NullStr.  A    *)
(* date is a day number 10*year + day, NaT for a missing one; a score is   *)
(* an integer count of 1e-4 units (so that round(4) is rounding to an      *)
(* integer), NaN for a missing one.  A news_id cell is [int |-> n] where   *)
(* the table holds a number and [str |-> s] where it holds text; the two   *)
(* are never equal, as 7 == "7" is False in Python.                        *)
(***************************************************************************)
EXTENDS Integers, Sequences, FiniteSets, TLC

\* ------------------------------------------------------------------ bounds
MaxRows == 2        \* rows of the source table
SummaryRows == 3    \* rows of the source table where label counts are compared
HeadLimit == 1      \* stands for the 200 of head(200), scaled to MaxRows
MaxLoads == 3       \* runs of the body of load_data that are followed

\* ------------------------------------------------------------ null values
NullStr == <<"NULL">>     \* NaN / None in a text column
NaT == -1                 \* missing datetime
NA == -1                  \* missing Int64 year
NaN == -9999              \* missing float
None == -9998             \* Python None where a float is expected

\* ------------------------------------------------------- Python str methods
Digits == {"0", "1", "2", "3", "4", "5", "6", "7", "8", "9"}

DigitVal(c) ==
    CASE c = "0" -> 0 [] c = "1" -> 1 [] c = "2" -> 2 [] c = "3" -> 3
      [] c = "4" -> 4 [] c = "5" -> 5 [] c = "6" -> 6 [] c = "7" -> 7
      [] c = "8" -> 8 [] OTHER -> 9

UpperChar(c) ==
    CASE c = "a" -> "A" [] c = "b" -> "B" [] c = "l" -> "L"
      [] c = "n" -> "N" [] c = "x" -> "X" [] OTHER -> c

LowerChar(c) ==
    CASE c = "A" -> "a" [] c = "B" -> "b" [] c = "L" -> "l"
      [] c = "N" -> "n" [] c = "X" -> "x" [] OTHER -> c

\* str.upper()
Upper(s) == [i \in 1..Len(s) |-> UpperChar(s[i])]

RECURSIVE LStrip(_)
LStrip(s) == IF s # <<>> /\ Head(s) = " " THEN LStrip(Tail(s)) ELSE s

RECURSIVE RStrip(_)
RStrip(s) ==
    IF s # <<>> /\ s[Len(s)] = " " THEN RStrip(SubSeq(s, 1, Len(s) - 1)) ELSE s

\* str.strip()
Strip(s) == RStrip(LStrip(s))

RECURSIVE DigitsVal(_)
DigitsVal(s) ==
    IF s = <<>> THEN 0 ELSE 10 * DigitsVal(SubSeq(s, 1, Len(s) - 1)) + DigitVal(s[Len(s)])

AllDigits(s) == s # <<>> /\ \A i \in 1..Len(s) : s[i] \in Digits

\* int(s): surrounding whitespace is allowed, anything else raises ValueError
IntOk(s) == AllDigits(Strip(s))
IntVal(s) == DigitsVal(Strip(s))

\* str(int)
RECURSIVE IntStr(_)
IntStr(n) ==
    LET d == CASE n % 10 = 0 -> "0" [] n % 10 = 1 -> "1" [] n % 10 = 2 -> "2"
               [] n % 10 = 3 -> "3" [] n % 10 = 4 -> "4" [] n % 10 = 5 -> "5"
               [] n % 10 = 6 -> "6" [] n % 10 = 7 -> "7" [] n % 10 = 8 -> "8"
               [] OTHER -> "9"
    IN  IF n < 10 THEN <<d>> ELSE IntStr(n \div 10) \o <<d>>

\* Series.astype(str) on one cell of a text column: NaN becomes "nan"
AsStr(s) == IF s = NullStr THEN <<"n", "a", "n">> ELSE s

\* ------------------------------------------------------------- the loader
\* pd.to_datetime(errors="coerce") on one cell: a two-digit text "yd" is the
\* day d of year y, anything else is unparseable and becomes NaT
ToDatetime(s) ==
    IF Len(s) = 2 /\ AllDigits(s) /\ s[1] # "0" THEN DigitsVal(s) ELSE NaT

\* Series.dt.year.astype("Int64") on one cell
YearOf(d) == IF d = NaT THEN NA ELSE d \div 10

\* df["Stock_symbol"].astype(str).str.strip().str.upper() on one cell
NormalizeSymbol(s) == Upper(Strip(AsStr(s)))

\* the symbol column after load: flask2 normalizes it, flask leaves it as read
LoadedSymbol(v, s) == IF v = "flask2" THEN NormalizeSymbol(s) ELSE s

\* one row of the frame load_data returns
LoadRow(v, raw) ==
    [news_id |-> raw.news_id,
     Date |-> ToDatetime(raw.Date),
     Year |-> YearOf(ToDatetime(raw.Date)),
     Stock_symbol |-> LoadedSymbol(v, raw.Stock_symbol),
     Article_title |-> raw.Article_title,
     sentiment_label |-> raw.sentiment_label,
     sentiment_score_signed |-> raw.sentiment_score_signed]

\* load_data: the frame (its columns and rows) read from an existing source
load_data(v, source) ==
    [hasLabel |-> source.hasLabel,
     hasScore |-> source.hasScore,
     rows |-> [i \in 1..Len(source.rows) |-> LoadRow(v, source.rows[i])]]

\* ------------------------------------------------- module-level constants
Scores(rows) ==
    {rows[i].sentiment_score_signed : i \in 1..Len(rows)} \ {NaN}

SetMin(S) == CHOOSE x \in S : \A y \in S : x <= y
SetMax(S) == CHOOSE x \in S : \A y \in S : x >= y

\* float(DF["sentiment_score_signed"].min()): NaN cells are skipped, the
\* minimum of nothing is nan; None when the column is absent
MinScoreOf(df) ==
    IF ~df.hasScore THEN None
    ELSE IF Scores(df.rows) = {} THEN NaN ELSE SetMin(Scores(df.rows))

MaxScoreOf(df) ==
    IF ~df.hasScore THEN None
    ELSE IF Scores(df.rows) = {} THEN NaN ELSE SetMax(Scores(df.rows))

\* ---------------------------------------------------- the filter pipeline
ALL == <<"a", "l", "l">>      \* the "all" sentinel of year and symbol
Absent == -9997               \* a query parameter the request does not carry
Garbage == -9996              \* a sent_min/sent_max text float() rejects

\* index(): "if selected_year == '': selected_year = 'all'" (flask only)
SelectedYear(v, year) == IF v = "flask" /\ year = <<>> THEN ALL ELSE year

\* index(): the same for the symbol (flask only)
SelectedSymbol(v, symbol) == IF v = "flask" /\ symbol = <<>> THEN ALL ELSE symbol

\* "selected_year != 'all'" (flask) / "not in ['', 'all', None]" (flask2)
YearSet(v, year) ==
    IF v = "flask" THEN year # ALL ELSE year \notin {<<>>, ALL}

\* "selected_symbol != 'all'" (flask) / "not in ['', 'all', None]" (flask2)
SymbolSet(v, symbol) ==
    IF v = "flask" THEN symbol # ALL ELSE symbol \notin {<<>>, ALL}

\* a year step that finds nothing when int() rejects the value
YearRowsNoneOnFailure(rows, year) ==
    IF IntOk(year)
    THEN SelectSeq(rows, LAMBDA r : r.Year # NA /\ r.Year = IntVal(year))
    ELSE <<>>

\* df[df["Year"] == int(selected_year)] inside try/except: a ValueError of
\* int() leaves the frame as it was; NA == n is never true
YearRows(rows, year) ==
    IF IntOk(year)
    THEN SelectSeq(rows, LAMBDA r : r.Year # NA /\ r.Year = IntVal(year))
    ELSE rows

YearStep(v, rows, year) == IF YearSet(v, year) THEN YearRows(rows, year) ELSE rows

\* a year step without the try/except: the ValueError of int() leaves index()
YearRaisesUncaught(v, year) == YearSet(v, year) /\ ~IntOk(year)

\* the year step raises out of index(): never, "except: pass" takes the
\* ValueError of int()
YearRaises(v, year) == FALSE

\* the value the symbol column is compared with: flask2 strips and
\* upper-cases the request value, flask uses it as sent
SymbolWanted(v, symbol) == IF v = "flask2" THEN Upper(Strip(symbol)) ELSE symbol

SymbolStep(v, rows, symbol) ==
    IF SymbolSet(v, symbol)
    THEN SelectSeq(rows, LAMBDA r : r.Stock_symbol = SymbolWanted(v, symbol))
    ELSE rows

\* float(request.args.get(name, default)) raises on rejected text and on a
\* None default
FloatRaises(arg, default) == arg = Garbage \/ (arg = Absent /\ default = None)
FloatOf(arg, default) == IF arg = Absent THEN default ELSE arg

\* the try/except around both conversions: either failing resets both
SentRange(args, lo, hi) ==
    IF FloatRaises(args.sent_min, lo) \/ FloatRaises(args.sent_max, hi)
    THEN <<lo, hi>>
    ELSE <<FloatOf(args.sent_min, lo), FloatOf(args.sent_max, hi)>>

\* the range mask with strict comparisons
InRangeStrict(score, range) ==
    /\ score # NaN /\ range[1] # NaN /\ range[2] # NaN
    /\ score > range[1] /\ score < range[2]

\* (score >= sent_min) & (score <= sent_max): a comparison with NaN is False
InRange(score, range) ==
    /\ score # NaN /\ range[1] # NaN /\ range[2] # NaN
    /\ score >= range[1] /\ score <= range[2]

\* "if MIN_SCORE is not None": the range mask, on the frame given
SentimentStep(rows, range, lo) ==
    IF lo # None
    THEN SelectSeq(rows, LAMBDA r : InRange(r.sentiment_score_signed, range))
    ELSE rows

\* re.search(pat, text, re.IGNORECASE) for patterns of literal characters
\* and ".", which matches any character
MatchAt(pat, text, i) ==
    /\ i + Len(pat) - 1 <= Len(text)
    /\ \A j \in 1..Len(pat) :
          pat[j] = "." \/ LowerChar(pat[j]) = LowerChar(text[i + j - 1])

RegexSearch(pat, text) == \E i \in 1..(Len(text) + 1) : MatchAt(pat, text, i)

\* re.compile(pat) rejects a pattern whose parentheses do not pair up
RECURSIVE Unbalanced(_, _)
Unbalanced(pat, depth) ==
    IF pat = <<>> THEN depth # 0
    ELSE IF Head(pat) = "(" THEN Unbalanced(Tail(pat), depth + 1)
    ELSE IF Head(pat) = ")" THEN depth = 0 \/ Unbalanced(Tail(pat), depth - 1)
    ELSE Unbalanced(Tail(pat), depth)

\* the keyword step raises out of index(): str.contains compiles the keyword
\* before it looks at a title, and nothing catches re.error
KeywordRaises(keyword) == keyword # <<>> /\ Unbalanced(keyword, 0)

\* Series.str.contains(keyword, case=False, na=False) on one cell; the
\* pattern is a regular expression (regex=True is the default)
TitleContains(title, keyword) == title # NullStr /\ RegexSearch(keyword, title)

\* the title mask without case=False: the search is case-sensitive
KeywordStepCaseSensitive(rows, keyword) ==
    IF keyword # <<>>
    THEN SelectSeq(rows, LAMBDA r :
            /\ r.Article_title # NullStr
            /\ \E i \in 1..(Len(r.Article_title) + 1) :
                  /\ i + Len(keyword) - 1 <= Len(r.Article_title)
                  /\ \A j \in 1..Len(keyword) :
                        keyword[j] = "." \/ keyword[j] = r.Article_title[i + j - 1])
    ELSE rows

\* "if keyword": the title mask
KeywordStep(rows, keyword) ==
    IF keyword # <<>>
    THEN SelectSeq(rows, LAMBDA r : TitleContains(r.Article_title, keyword))
    ELSE rows

\* the id cell holds a number (numpy.int64 / int), not text
IsInt(id) == "int" \in DOMAIN id

\* Series.astype(str) on one id cell
IdStr(id) == IF IsInt(id) THEN IntStr(id.int) ELSE id.str

\* filtered["news_id"].astype(str) == str(selected_news_id)
IdEquals(news_id, selected) == IdStr(news_id) = selected

\* the record-id step: a filter in flask2, absent from the flask pipeline
NewsIdStep(v, rows, selected) ==
    IF v = "flask2" /\ selected # <<>>
    THEN SelectSeq(rows, LAMBDA r : IdEquals(r.news_id, selected))
    ELSE rows

\* the steps of index() in the order of the code, on DF.copy()
Filtered(v, df, lo, hi, args) ==
    LET y == YearStep(v, df.rows, SelectedYear(v, args.year))
        s == SymbolStep(v, y, SelectedSymbol(v, args.symbol))
        m == SentimentStep(s, SentRange(args, lo, hi), lo)
        k == KeywordStep(m, Strip(args.keyword))
    IN  NewsIdStep(v, k, Strip(args.news_id))

\* an exception leaves index() for the query parameters args: the
\* conversions of sent_min / sent_max and of the year are inside try/except,
\* the keyword step is not
IndexRaises(v, args) ==
    YearRaises(v, SelectedYear(v, args.year)) \/ KeywordRaises(Strip(args.keyword))

\* ------------------------------------------------------ sort, table, detail
Perms(n) == {p \in [1..n -> 1..n] : \A i, j \in 1..n : i # j => p[i] # p[j]}

\* a before b under sort_values("Date", ascending=False): later dates first,
\* NaT last (na_position="last")
DateGeq(a, b) == b = NaT \/ (a # NaT /\ a >= b)

\* filtered.sort_values("Date", ascending=False): the default quicksort is
\* not stable, so rows of equal Date come out in any order
SortedByDate(rows) ==
    {[i \in 1..Len(rows) |-> rows[p[i]]] : p \in
        {q \in Perms(Len(rows)) :
            \A i \in 1..(Len(rows) - 1) : DateGeq(rows[q[i]].Date, rows[q[i + 1]].Date)}}

\* DataFrame.head(n)
HeadRows(rows, n) == SubSeq(rows, 1, IF Len(rows) < n THEN Len(rows) ELSE n)

\* filtered[cols_to_show].head(200)
TableRows(sorted) == HeadRows(sorted, HeadLimit)

NoRow == [news_id |-> -1]

\* the rows the detail section matches.  flask converts the request value
\* to the type of the id of the first row: for a number that is int(), and
\* the ids are compared as numbers, or as strings when int() raises; for
\* text the ids are compared with the request value itself.  flask2 compares
\* the ids as strings.
DetailMatch(v, sorted, selected) ==
    IF v = "flask"
    THEN IF IsInt(Head(sorted).news_id)
         THEN IF IntOk(selected)
              THEN SelectSeq(sorted, LAMBDA r : r.news_id = [int |-> IntVal(selected)])
              ELSE SelectSeq(sorted, LAMBDA r : IdEquals(r.news_id, selected))
         ELSE SelectSeq(sorted, LAMBDA r : r.news_id = [str |-> selected])
    ELSE SelectSeq(sorted, LAMBDA r : IdEquals(r.news_id, selected))

\* a detail section that looks the record up in the rows of the table
SelectedRowInTable(v, sorted, selected) ==
    IF selected = <<>> \/ sorted = <<>>
          \/ DetailMatch(v, TableRows(sorted), selected) = <<>>
    THEN NoRow
    ELSE Head(DetailMatch(v, TableRows(sorted), selected))

\* selected_row: row.iloc[0] of the match, None without a match
SelectedRow(v, sorted, selected) ==
    IF selected = <<>> \/ sorted = <<>> \/ DetailMatch(v, sorted, selected) = <<>>
    THEN NoRow
    ELSE Head(DetailMatch(v, sorted, selected))

\* ------------------------------------------------------------- aggregates
\* round(a / b) to an integer, halves to the even neighbour (b > 0)
RoundDiv(a, b) ==
    LET q == a \div b
        r == a % b
    IN  IF 2 * r < b THEN q
        ELSE IF 2 * r > b THEN q + 1
        ELSE IF q % 2 = 0 THEN q ELSE q + 1

RECURSIVE SortedSeq(_)
SortedSeq(S) == IF S = {} THEN <<>> ELSE <<SetMin(S)>> \o SortedSeq(S \ {SetMin(S)})

RECURSIVE SumScores(_)
SumScores(rows) ==
    IF rows = <<>> THEN 0 ELSE Head(rows).sentiment_score_signed + SumScores(Tail(rows))

\* the group keys of groupby("Year"): NA keys are dropped, keys are sorted
GroupYears(rows) == SortedSeq({rows[i].Year : i \in 1..Len(rows)} \ {NA})

\* a mean that divides by the number of rows of the year, NaN rows included
GroupMeanOverAllRows(rows, year) ==
    LET g == SelectSeq(rows, LAMBDA r : r.Year = year /\ r.sentiment_score_signed # NaN)
    IN  IF g = <<>> THEN NaN
        ELSE RoundDiv(SumScores(g), Len(SelectSeq(rows, LAMBDA r : r.Year = year)))

\* Series.mean() of one group, rounded by round(4): NaN cells are skipped,
\* the mean of nothing is nan
GroupMean(rows, year) ==
    LET g == SelectSeq(rows, LAMBDA r : r.Year = year /\ r.sentiment_score_signed # NaN)
    IN  IF g = <<>> THEN NaN ELSE RoundDiv(SumScores(g), Len(g))

\* compute_annual_trend(df): (trend_years, trend_scores) as one sequence
compute_annual_trend(df) ==
    IF ~df.hasScore THEN <<>>
    ELSE [i \in 1..Len(GroupYears(df.rows)) |->
            [year |-> GroupYears(df.rows)[i],
             mean |-> GroupMean(df.rows, GroupYears(df.rows)[i])]]

POS == <<"p", "o", "s">>
NEG == <<"n", "e", "g">>
Labels == {POS, NEG}

EmptySummary ==
    [total_articles |-> 0, dominant_label |-> NullStr, dominant_pct |-> None,
     summary_rows |-> <<>>]

\* df_year of compute_yearly_summary
YearFrame(v, rows, year) == IF YearSet(v, year) THEN YearRows(rows, year) ELSE rows

\* value_counts() of one label: null labels are not counted
LabelCount(rows, label) == Len(SelectSeq(rows, LAMBDA r : r.sentiment_label = label))

LabelsOf(rows) == {l \in Labels : LabelCount(rows, l) > 0}

Pos(seq, x) == CHOOSE i \in 1..Len(seq) : seq[i] = x

\* the counts sorted the wrong way round
CountOrderAscending(rows, tie) ==
    CHOOSE o \in [1..Cardinality(LabelsOf(rows)) -> LabelsOf(rows)] :
        \A i, j \in 1..Cardinality(LabelsOf(rows)) :
            i < j => \/ LabelCount(rows, o[i]) < LabelCount(rows, o[j])
                     \/ /\ LabelCount(rows, o[i]) = LabelCount(rows, o[j])
                        /\ Pos(tie, o[i]) < Pos(tie, o[j])

\* counts.index after value_counts() [.sort_values(ascending=False)]: by
\* count descending; the order of equal counts is the library's, fixed for
\* the process and given here by the preference order tie
CountOrder(rows, tie) ==
    CHOOSE o \in [1..Cardinality(LabelsOf(rows)) -> LabelsOf(rows)] :
        \A i, j \in 1..Cardinality(LabelsOf(rows)) :
            i < j => \/ LabelCount(rows, o[i]) > LabelCount(rows, o[j])
                     \/ /\ LabelCount(rows, o[i]) = LabelCount(rows, o[j])
                        /\ Pos(tie, o[i]) < Pos(tie, o[j])

\* the label percentages, in tenths of a percent
Pct(count, total) == RoundDiv(count * 1000, total)

SummaryOf(rows, tie) ==
    LET order == CountOrder(rows, tie)
        total == Len(SelectSeq(rows, LAMBDA r : r.sentiment_label \in Labels))
    IN  IF total = 0 THEN EmptySummary
        ELSE [total_articles |-> total,
              dominant_label |-> order[1],
              dominant_pct |-> Pct(LabelCount(rows, order[1]), total),
              summary_rows |->
                  [i \in 1..Len(order) |->
                      [Sentiment |-> order[i],
                       Count |-> LabelCount(rows, order[i]),
                       Percentage |-> Pct(LabelCount(rows, order[i]), total)]]]

\* compute_yearly_summary(df, selected_year)
compute_yearly_summary(v, df, year, tie) ==
    IF ~df.hasLabel \/ YearFrame(v, df.rows, year) = <<>>
    THEN EmptySummary
    ELSE SummaryOf(YearFrame(v, df.rows, year), tie)

\* ---------------------------------------------------------- the processes
VARIABLES
    variant,      \* which application the process runs: "flask", "flask2"
                  \* or "streamlit"
    source,       \* the file at the data path: exists, columns, rows as read
    tie,          \* the library's order of equally frequent labels
    pc,           \* "boot": module not yet imported (streamlit: script not
                  \* yet run); "serving"; "responded": index() (the script)
                  \* has built its output; "failed": import raised;
                  \* "stopped": st.stop() has ended the script run
    DF,           \* the module-level frame
    MIN_SCORE,    \* module-level float or None
    MAX_SCORE,
    args,         \* query parameters of the request in hand
    out,          \* what index() hands to render_template
    loaded,       \* history: the frame exactly as load_data returned it
    prev,         \* history, kept where prev.on: the year parameter, summary
                  \* and trend of the last response
    cached,       \* st.cache_data holds the value of load_data (streamlit)
    loads,        \* history: how often the body of load_data has been run
    failed        \* history: a run of load_data has ended without a frame

vars == <<variant, source, tie, pc, DF, MIN_SCORE, MAX_SCORE, args, out, loaded, prev,
          cached, loads, failed>>

NoFrame == [hasLabel |-> FALSE, hasScore |-> FALSE, rows |-> <<>>]
NoArgs == [year |-> ALL, symbol |-> ALL, keyword |-> <<>>, news_id |-> <<>>,
           sent_min |-> Absent, sent_max |-> Absent]
NoOut == [row_count |-> -1]
ErrorOut == [row_count |-> -1, error |-> TRUE]    \* the 500 response
NoPrev == [on |-> TRUE, year |-> NullStr, yearly_summary |-> EmptySummary, trend |-> <<>>]
Untracked == [NoPrev EXCEPT !.on = FALSE]

\* a row as read, its news_id a number
RawRow(id, date, symbol, title, label, score) ==
    [news_id |-> [int |-> id], Date |-> date, Stock_symbol |-> symbol, Article_title |-> title,
     sentiment_label |-> label, sentiment_score_signed |-> score]

\* the row raw with the text s as its news_id
WithTextId(raw, s) == [raw EXCEPT !.news_id = [str |-> s]]

RawRows(ids, dates, symbols, titles, labels, scores) ==
    {RawRow(id, d, sy, t, l, sc) :
        id \in ids, d \in dates, sy \in symbols, t \in titles, l \in labels, sc \in scores}

SeqsUpTo(S, n) == UNION {[1..k -> S] : k \in 0..n}

\* a source file: a missing path and a file the reader rejects have no
\* content; an absent column carries no values
Sources(pool, n, hasLabels, hasScores) ==
    {[exists |-> FALSE, readable |-> FALSE, hasLabel |-> FALSE, hasScore |-> FALSE,
      rows |-> <<>>],
     [exists |-> TRUE, readable |-> FALSE, hasLabel |-> FALSE, hasScore |-> FALSE,
      rows |-> <<>>]}
    \cup
    {[exists |-> TRUE, readable |-> TRUE, hasLabel |-> hl, hasScore |-> hs,
      rows |-> [i \in 1..Len(rs) |->
                  [rs[i] EXCEPT !.sentiment_label = IF hl THEN @ ELSE NullStr,
                                !.sentiment_score_signed = IF hs THEN @ ELSE NaN]]] :
        hl \in hasLabels, hs \in hasScores, rs \in SeqsUpTo(pool, n)}

InitFrom(pool, n, hasLabels, hasScores, ties, history) ==
    /\ variant \in {"flask", "flask2"}
    /\ source \in Sources(pool, n, hasLabels, hasScores)
    /\ tie \in ties
    /\ pc = "boot"
    /\ DF = NoFrame
    /\ MIN_SCORE = None
    /\ MAX_SCORE = None
    /\ args = NoArgs
    /\ out = NoOut
    /\ loaded = NoFrame
    /\ prev = history
    /\ cached = FALSE
    /\ loads = 0
    /\ failed = FALSE

\* load_data comes back with a frame: the path exists and the reader accepts
\* the file; backnew.py also gives up on a frame without rows (df.empty)
LoadOk(v, src) ==
    /\ src.exists
    /\ src.readable
    /\ v = "streamlit" => src.rows # <<>>

\* module import: DF = load_data(...), then MIN_SCORE / MAX_SCORE
Load ==
    /\ variant \in {"flask", "flask2"}
    /\ pc = "boot"
    /\ LoadOk(variant, source)
    /\ DF' = load_data(variant, source)
    /\ MIN_SCORE' = MinScoreOf(load_data(variant, source))
    /\ MAX_SCORE' = MaxScoreOf(load_data(variant, source))
    /\ loaded' = load_data(variant, source)
    /\ loads' = loads + 1
    /\ pc' = "serving"
    /\ UNCHANGED <<variant, source, tie, args, out, prev, cached, failed>>

\* load_data raises (FileNotFoundError, or the reader's exception): the
\* import fails and the interpreter exits
LoadFails ==
    /\ variant \in {"flask", "flask2"}
    /\ pc = "boot"
    /\ ~LoadOk(variant, source)
    /\ loads' = loads + 1
    /\ failed' = TRUE
    /\ pc' = "failed"
    /\ UNCHANGED <<variant, source, tie, DF, MIN_SCORE, MAX_SCORE, args, out, loaded, prev,
                   cached>>

\* a handler that sorted the module-level frame itself
FrameSortedInPlace(df, sorted) == [df EXCEPT !.rows = sorted]

\* what index() leaves in the module-level frame: it works on DF.copy() and
\* on new frames, never on DF
FrameAfterIndex(df, sorted) == df

\* aggregates taken over the filtered frame
AggregateFiltered(df, sorted) == [df EXCEPT !.rows = sorted]

\* the frame compute_annual_trend and compute_yearly_summary are given
AggregateFrame(df, sorted) == df

\* index() for the query parameters a; an exception that leaves it is
\* answered by the framework with an error response
Index(a) ==
    /\ variant \in {"flask", "flask2"}
    /\ pc = "serving"
    /\ \E sorted \in SortedByDate(Filtered(variant, DF, MIN_SCORE, MAX_SCORE, a)) :
          /\ out' = IF IndexRaises(variant, a) THEN ErrorOut ELSE
                    [error |-> FALSE,
                     selected_year |-> SelectedYear(variant, a.year),
                     sent |-> SentRange(a, MIN_SCORE, MAX_SCORE),
                     filtered |-> sorted,
                     row_count |-> Len(sorted),
                     table_rows |-> TableRows(sorted),
                     selected_row |-> SelectedRow(variant, sorted, Strip(a.news_id)),
                     trend |-> compute_annual_trend(AggregateFrame(DF, sorted)),
                     yearly_summary |->
                         compute_yearly_summary(variant, AggregateFrame(DF, sorted),
                             SelectedYear(variant, a.year), tie)]
          /\ DF' = IF IndexRaises(variant, a) THEN DF ELSE FrameAfterIndex(DF, sorted)
    /\ args' = a
    /\ pc' = "responded"
    /\ UNCHANGED <<variant, source, tie, MIN_SCORE, MAX_SCORE, loaded, prev,
                   cached, loads, failed>>

\* render_template returns: the response leaves, the next request may come
Respond ==
    /\ pc = "responded"
    /\ prev' = IF prev.on
               THEN [on |-> TRUE, year |-> args.year,
                     yearly_summary |-> out.yearly_summary, trend |-> out.trend]
               ELSE prev
    /\ args' = NoArgs
    /\ out' = NoOut
    /\ pc' = "serving"
    /\ UNCHANGED <<variant, source, tie, DF, MIN_SCORE, MAX_SCORE, loaded,
                   cached, loads, failed>>

\* ------------------------------------------------- the general workload
\* rows that differ in date and score, and rows that differ in symbol and
\* title; requests that use every filter dimension
Pool ==
    RawRows({7}, {<<"2", "1">>, <<"1", "1">>, NullStr}, {<<"A">>}, {<<"a", "b">>},
            {POS}, {1, NaN})
    \cup
    RawRows({8}, {<<"2", "1">>}, {<<"A">>, <<" ", "b">>}, {<<"a", "b">>, <<"B">>, NullStr},
            {POS}, {3})

Requests ==
    [year : {ALL, <<"2">>},
     symbol : {ALL, <<"a">>},
     keyword : {<<>>, <<"A">>},
     news_id : {<<>>, <<"7">>},
     sent_min : {Absent, 0, 2},
     sent_max : {Absent, 3, Garbage}]

Init == InitFrom(Pool, MaxRows, {TRUE}, BOOLEAN, {<<POS, NEG>>}, Untracked)

Next ==
    \/ Load
    \/ LoadFails
    \/ \E a \in Requests : Index(a)
    \/ Respond

Spec == Init /\ [][Next]_vars

\* ------------------------------------------- the workload of the pipeline
\* one row that passes every predicate of the requests below, and for each
\* predicate one row that fails it alone
PoolOrder ==
    {RawRow(7, <<"2", "1">>, <<"A">>, <<"a", "b">>, POS, 3),
     RawRow(7, <<"1", "1">>, <<"A">>, <<"a", "b">>, POS, 3),
     RawRow(7, <<"2", "1">>, <<"b">>, <<"a", "b">>, POS, 3),
     RawRow(7, <<"2", "1">>, <<"A">>, <<"a", "b">>, POS, 1),
     RawRow(7, <<"2", "1">>, <<"A">>, <<"B">>, POS, 3),
     RawRow(8, <<"2", "1">>, <<"A">>, <<"a", "b">>, POS, 3)}

RequestsOrder ==
    [year : {ALL, <<"2">>},
     symbol : {ALL, <<"A">>},
     keyword : {<<>>, <<"A">>},
     news_id : {<<>>, <<"7">>},
     sent_min : {Absent, 2},
     sent_max : {Absent}]

InitOrder == InitFrom(PoolOrder, MaxRows, {TRUE}, {TRUE}, {<<POS, NEG>>}, Untracked)

NextOrder ==
    \/ Load
    \/ LoadFails
    \/ \E a \in RequestsOrder : Index(a)
    \/ Respond

SpecOrder == InitOrder /\ [][NextOrder]_vars

\* ------------------------------------------ the workload of text matching
\* rows that differ in the symbol and the title as stored in the source;
\* requests that differ in symbol and keyword
PoolText ==
    RawRows({7}, {<<"2", "1">>}, {<<"A">>, <<"a">>, <<" ", "b">>, NullStr},
            {<<"a", "b">>, <<"B">>, NullStr}, {POS}, {1})

RequestsText ==
    [year : {ALL},
     symbol : {ALL, <<>>, <<"A">>, <<"a", " ">>, <<"b">>},
     keyword : {<<>>, <<"a">>, <<"A", "B">>, <<"b", " ">>, <<".">>},
     news_id : {<<>>},
     sent_min : {Absent},
     sent_max : {Absent}]

InitText == InitFrom(PoolText, MaxRows, {TRUE}, {TRUE}, {<<POS, NEG>>}, Untracked)

NextText ==
    \/ Load
    \/ LoadFails
    \/ \E a \in RequestsText : Index(a)
    \/ Respond

SpecText == InitText /\ [][NextText]_vars

\* ---------------------------------------- the workload of the aggregates
\* rows that differ in year, label and title; requests that differ in the
\* year (matching, matching nothing, not a number) and in the other filters
PoolSummary ==
    RawRows({7}, {<<"2", "1">>, <<"1", "1">>}, {<<"A">>}, {<<"a", "b">>},
            {POS, NEG, NullStr}, {1})
    \cup
    {RawRow(7, <<"2", "1">>, <<"A">>, <<"B">>, NEG, 1)}

RequestsSummary ==
    [year : {ALL, <<"2">>, <<"3">>, <<"x">>},
     symbol : {ALL},
     keyword : {<<>>, <<"a">>},
     news_id : {<<>>},
     sent_min : {Absent},
     sent_max : {Absent}]

InitSummary == InitFrom(PoolSummary, SummaryRows, BOOLEAN, {TRUE}, {<<POS, NEG>>, <<NEG, POS>>}, NoPrev)

NextSummary ==
    \/ Load
    \/ LoadFails
    \/ \E a \in RequestsSummary : Index(a)
    \/ Respond

SpecSummary == InitSummary /\ [][NextSummary]_vars

\* rows that differ in year (one of them unparseable) and score
PoolTrend ==
    RawRows({7}, {<<"2", "1">>, <<"1", "1">>, <<"x">>}, {<<"A">>}, {<<"a", "b">>},
            {POS}, {1, 2, NaN})

RequestsTrend ==
    [year : {ALL, <<"2">>},
     symbol : {ALL},
     keyword : {<<>>},
     news_id : {<<>>},
     sent_min : {Absent, 2},
     sent_max : {Absent}]

InitTrend == InitFrom(PoolTrend, MaxRows, {TRUE}, BOOLEAN, {<<POS, NEG>>}, NoPrev)

NextTrend ==
    \/ Load
    \/ LoadFails
    \/ \E a \in RequestsTrend : Index(a)
    \/ Respond

SpecTrend == InitTrend /\ [][NextTrend]_vars

\* ---------------------------------------- the workload of the year value
\* rows that differ in year, symbol, title, label and score; requests whose
\* year is unset, a number, or text int() rejects, with the other filters
\* set and unset and a keyword re.compile rejects
PoolYear ==
    {RawRow(7, <<"2", "1">>, <<"A">>, <<"a", "b">>, POS, 3),
     RawRow(7, <<"1", "1">>, <<"A">>, <<"a", "b">>, NEG, 3),
     RawRow(7, <<"2", "1">>, <<"b">>, <<"a", "b">>, POS, 3),
     RawRow(7, <<"2", "1">>, <<"A">>, <<"B">>, POS, 3),
     RawRow(7, <<"2", "1">>, <<"A">>, <<"a", "b">>, POS, 1)}

RequestsYear ==
    [year : {ALL, <<"2">>, <<"x">>, <<" ">>},
     symbol : {ALL, <<"A">>},
     keyword : {<<>>, <<"a">>, <<"(">>},
     news_id : {<<>>},
     sent_min : {Absent, 2},
     sent_max : {Absent}]

InitYear == InitFrom(PoolYear, MaxRows, BOOLEAN, {TRUE}, {<<POS, NEG>>}, Untracked)

NextYear ==
    \/ Load
    \/ LoadFails
    \/ \E a \in RequestsYear : Index(a)
    \/ Respond

SpecYear == InitYear /\ [][NextYear]_vars

\* ------------------------------------------ the workload of the record id
\* tables whose ids are all numbers or all text (a column of a CSV or
\* parquet file has one type); requests whose news_id is the string of an
\* id, a differently written number, or no id of the table
PoolDetail ==
    {RawRow(7, <<"2", "1">>, <<"A">>, <<"a", "b">>, POS, 3),
     RawRow(7, <<"1", "1">>, <<"A">>, <<"B">>, POS, 3),
     RawRow(8, <<"1", "1">>, <<"A">>, <<"a", "b">>, POS, 3),
     WithTextId(RawRow(7, <<"2", "1">>, <<"A">>, <<"a", "b">>, POS, 3), <<"x">>),
     WithTextId(RawRow(7, <<"1", "1">>, <<"A">>, <<"a", "b">>, POS, 3), <<"0", "7">>)}

\* the news_id column has one type
OneIdType(rows) == \A i, j \in 1..Len(rows) : IsInt(rows[i].news_id) = IsInt(rows[j].news_id)

RequestsDetail ==
    [year : {ALL},
     symbol : {ALL},
     keyword : {<<>>, <<"a">>},
     news_id : {<<>>, <<"7">>, <<"0", "7">>, <<" ", "8">>, <<"x">>},
     sent_min : {Absent},
     sent_max : {Absent}]

InitDetail ==
    /\ InitFrom(PoolDetail, MaxRows, {TRUE}, {TRUE}, {<<POS, NEG>>}, Untracked)
    /\ OneIdType(source.rows)

NextDetail ==
    \/ Load
    \/ LoadFails
    \/ \E a \in RequestsDetail : Index(a)
    \/ Respond

SpecDetail == InitDetail /\ [][NextDetail]_vars

\* ---------------------------------------------- the interactive dashboard
AllOption == <<"(", "A", "l", "l", ")">>   \* the "(All)" entry of the symbol selectbox
AllYears == -9995                          \* the "(All)" entry of the year selectbox

\* ["(All)"] + all_years: what the year selectbox can return
YearOptions(df) == {AllYears} \cup ({df.rows[i].Year : i \in 1..Len(df.rows)} \ {NA})

\* ["(All)"] + the symbols of the frame: what the symbol selectbox can return
SymbolOptions(df) ==
    {AllOption} \cup ({df.rows[i].Stock_symbol : i \in 1..Len(df.rows)} \ {NullStr})

\* sentiment_range: None without the score column, (min, max) when both are
\* equal, else what the slider returns, here a pair of scores of the frame
RangeOptions(df) ==
    IF ~df.hasScore THEN {<<None, None>>}
    ELSE IF MinScoreOf(df) # NaN /\ MinScoreOf(df) = MaxScoreOf(df)
         THEN {<<MinScoreOf(df), MaxScoreOf(df)>>}
         ELSE {p \in Scores(df.rows) \X Scores(df.rows) : p[1] <= p[2]}

\* what st.sidebar.text_input returns
KeywordInputs == {<<>>, <<"a">>}

\* the values of the sidebar widgets in one run of the script
Widgets(df) ==
    [year : YearOptions(df), symbol : SymbolOptions(df), range : RangeOptions(df),
     keyword : KeywordInputs]

\* "3) Apply Filters" of the script, on df.copy()
ScriptFiltered(df, w) ==
    LET y == IF w.year # AllYears
             THEN SelectSeq(df.rows, LAMBDA r : r.Year # NA /\ r.Year = w.year)
             ELSE df.rows
        s == IF w.symbol # AllOption
             THEN SelectSeq(y, LAMBDA r : r.Stock_symbol = w.symbol)
             ELSE y
        m == IF w.range # <<None, None>>
             THEN SelectSeq(s, LAMBDA r : InRange(r.sentiment_score_signed, w.range))
             ELSE s
    IN  IF w.keyword # <<>>
        THEN SelectSeq(m, LAMBDA r : TitleContains(r.Article_title, w.keyword))
        ELSE m

\* the news_id selectbox over filtered["news_id"].unique(), and the first row
\* of the id it returns; nothing is selected when no row is left
ScriptRows(sorted) ==
    IF sorted = <<>> THEN {NoRow}
    ELSE {Head(SelectSeq(sorted, LAMBDA r : r.news_id = sorted[i].news_id)) :
             i \in 1..Len(sorted)}

\* what one run of the script draws from the frame df
Drawn(df, w, sorted, row) ==
    [filtered |-> sorted, row_count |-> Len(sorted), table_rows |-> TableRows(sorted),
     selected_row |-> row]

\* a run of the script that gets the frame from the cache and draws it
ScriptDraws(df) ==
    /\ \E w \in Widgets(df) :
          \E sorted \in SortedByDate(ScriptFiltered(df, w)) :
             \E row \in ScriptRows(sorted) :
                /\ args' = w
                /\ out' = Drawn(df, w, sorted, row)
    /\ pc' = "responded"

\* one run of the script, started by a new session or by an interaction:
\* load_data through st.cache_data, then the filters and the views.  A
\* value is cached only when the body returns; st.stop() ends the run and
\* leaves the cache as it was.
Script ==
    /\ variant = "streamlit"
    /\ pc \in {"boot", "serving", "stopped"}
    /\ \/ /\ cached
          /\ ScriptDraws(DF)
          /\ UNCHANGED <<DF, MIN_SCORE, MAX_SCORE, loaded, cached, loads, failed>>
       \/ /\ ~cached
          /\ loads < MaxLoads
          /\ LoadOk(variant, source)
          /\ DF' = load_data(variant, source)
          /\ MIN_SCORE' = MinScoreOf(load_data(variant, source))
          /\ MAX_SCORE' = MaxScoreOf(load_data(variant, source))
          /\ loaded' = load_data(variant, source)
          /\ cached' = TRUE
          /\ loads' = loads + 1
          /\ ScriptDraws(load_data(variant, source))
          /\ UNCHANGED failed
       \/ /\ ~cached
          /\ loads < MaxLoads
          /\ ~LoadOk(variant, source)
          /\ loads' = loads + 1
          /\ failed' = TRUE
          /\ pc' = "stopped"
          /\ UNCHANGED <<DF, MIN_SCORE, MAX_SCORE, loaded, cached, args, out>>
    /\ UNCHANGED <<variant, source, tie, prev>>

\* ------------------------------------------- the workload of the life cycle
\* the three applications, over a data path that is missing, unreadable,
\* empty or holds rows, and that changes while the process lives
PoolLife ==
    {RawRow(7, <<"2", "1">>, <<"A">>, <<"a", "b">>, POS, 1),
     RawRow(8, <<"1", "1">>, <<"b">>, <<"B">>, NEG, 3)}

SourcesLife == Sources(PoolLife, MaxRows, {TRUE}, {TRUE})

RequestsLife ==
    [year : {ALL, <<"2">>},
     symbol : {ALL},
     keyword : {<<>>, <<"a">>},
     news_id : {<<>>},
     sent_min : {Absent},
     sent_max : {Absent}]

\* the file at the data path is written, replaced or removed
SourceChanges ==
    /\ source' \in SourcesLife \ {source}
    /\ UNCHANGED <<variant, tie, pc, DF, MIN_SCORE, MAX_SCORE, args, out, loaded, prev,
                   cached, loads, failed>>

InitLife ==
    /\ variant \in {"flask", "flask2", "streamlit"}
    /\ source \in SourcesLife
    /\ tie = <<POS, NEG>>
    /\ pc = "boot"
    /\ DF = NoFrame
    /\ MIN_SCORE = None
    /\ MAX_SCORE = None
    /\ args = NoArgs
    /\ out = NoOut
    /\ loaded = NoFrame
    /\ prev = Untracked
    /\ cached = FALSE
    /\ loads = 0
    /\ failed = FALSE

NextLife ==
    \/ Load
    \/ LoadFails
    \/ \E a \in RequestsLife : Index(a)
    \/ Respond
    \/ Script
    \/ SourceChanges

SpecLife == InitLife /\ [][NextLife]_vars

\* --------------------------------------------------------------- helpers
Count(seq, x) == Cardinality({i \in 1..Len(seq) : seq[i] = x})

\* two sequences hold the same rows the same number of times
SameRows(s, t) ==
    /\ Len(s) = Len(t)
    /\ \A i \in 1..Len(s) : Count(s, s[i]) = Count(t, s[i])

DateSorted(rows) ==
    \A i \in 1..(Len(rows) - 1) :
        rows[i + 1].Date = NaT \/ (rows[i].Date # NaT /\ rows[i].Date >= rows[i + 1].Date)

Served == pc = "responded"

\* the request in hand sets no filter dimension
AllUnset ==
    /\ args.year \in {ALL, <<>>}
    /\ args.symbol \in {ALL, <<>>}
    /\ args.sent_min = Absent /\ args.sent_max = Absent
    /\ Strip(args.keyword) = <<>>
    /\ Strip(args.news_id) = <<>>

\* C1: a request with every filter dimension unset yields every row of the
\* Dataset (rows with a null score, date or title included), sorted by Date
\* descending, and the table is its first HeadLimit rows.
C1_UnsetReturnsFullDataset ==
    (Served /\ AllUnset) =>
        /\ out.row_count = Len(DF.rows)
        /\ SameRows(out.filtered, DF.rows)
        /\ DateSorted(out.filtered)
        /\ out.table_rows = HeadRows(out.filtered, HeadLimit)

\* the request in hand with the sentiment parameters left out
WithoutRange == [args EXCEPT !.sent_min = Absent, !.sent_max = Absent]

\* the request supplies a range that is the observed [min, max] or wider
Covers ==
    /\ MIN_SCORE \notin {None, NaN}
    /\ args.sent_min # Absent \/ args.sent_max # Absent
    /\ args.sent_min # Garbage /\ args.sent_max # Garbage
    /\ out.sent[1] <= MIN_SCORE /\ out.sent[2] >= MAX_SCORE

WithoutSymbol == [args EXCEPT !.symbol = ALL]

\* C3: for a requested symbol X other than "all", the returned rows are
\* exactly the rows that pass the other predicates and whose symbol,
\* trimmed and upper-cased, equals X trimmed and upper-cased.
C3_SymbolMatchesNormalized ==
    (Served /\ SymbolSet(variant, SelectedSymbol(variant, args.symbol))) =>
        SameRows(out.filtered,
            SelectSeq(Filtered(variant, DF, MIN_SCORE, MAX_SCORE, WithoutSymbol),
                 LAMBDA r : NormalizeSymbol(r.Stock_symbol) = NormalizeSymbol(args.symbol)))

\* str.lower()
Lower(s) == [i \in 1..Len(s) |-> LowerChar(s[i])]

\* keyword occurs in title as a literal substring, letter case ignored
LiteralContains(title, keyword) ==
    \E i \in 1..(Len(title) + 1) :
        /\ i + Len(keyword) - 1 <= Len(title)
        /\ \A j \in 1..Len(keyword) : LowerChar(keyword[j]) = LowerChar(title[i + j - 1])

WithKeyword(k) == [args EXCEPT !.keyword = k]

\* C4: for a non-empty keyword the returned rows are exactly the rows that
\* pass the other predicates and whose non-null title contains the keyword
\* as a literal substring ignoring case; the keyword in upper or lower case
\* returns the same rows; a row without a title is never returned.
C4_KeywordLiteralIgnoringCase ==
    (Served /\ Strip(args.keyword) # <<>>) =>
        /\ SameRows(out.filtered,
               SelectSeq(Filtered(variant, DF, MIN_SCORE, MAX_SCORE, WithKeyword(<<>>)),
                    LAMBDA r : /\ r.Article_title # NullStr
                               /\ LiteralContains(r.Article_title, Strip(args.keyword))))
        /\ SameRows(out.filtered,
               Filtered(variant, DF, MIN_SCORE, MAX_SCORE, WithKeyword(Upper(args.keyword))))
        /\ SameRows(out.filtered,
               Filtered(variant, DF, MIN_SCORE, MAX_SCORE, WithKeyword(Lower(args.keyword))))
        /\ \A i \in 1..Len(out.filtered) : out.filtered[i].Article_title # NullStr

\* the predicates of the pipeline, each on one row of the Dataset
YearHolds(r) ==
    (YearSet(variant, out.selected_year) /\ IntOk(out.selected_year)) =>
        (r.Year # NA /\ r.Year = IntVal(out.selected_year))

SymbolHolds(r) ==
    SymbolSet(variant, SelectedSymbol(variant, args.symbol)) =>
        r.Stock_symbol = SymbolWanted(variant, SelectedSymbol(variant, args.symbol))

RangeHolds(r) ==
    MIN_SCORE # None =>
        /\ r.sentiment_score_signed # NaN
        /\ out.sent[1] # NaN /\ out.sent[1] <= r.sentiment_score_signed
        /\ out.sent[2] # NaN /\ r.sentiment_score_signed <= out.sent[2]

KeywordHolds(r) ==
    Strip(args.keyword) # <<>> => TitleContains(r.Article_title, Strip(args.keyword))

IdHolds(r) ==
    (variant = "flask2" /\ Strip(args.news_id) # <<>>) =>
        IdStr(r.news_id) = Strip(args.news_id)

\* the k-th step of the pipeline, on the rows given
StepNo(k, rows) ==
    CASE k = 1 -> YearStep(variant, rows, out.selected_year)
      [] k = 2 -> SymbolStep(variant, rows, SelectedSymbol(variant, args.symbol))
      [] k = 3 -> SentimentStep(rows, out.sent, MIN_SCORE)
      [] k = 4 -> KeywordStep(rows, Strip(args.keyword))
      [] OTHER -> NewsIdStep(variant, rows, Strip(args.news_id))

RECURSIVE InOrder(_, _)
InOrder(order, rows) ==
    IF order = <<>> THEN rows ELSE InOrder(Tail(order), StepNo(Head(order), rows))

\* every order of the five steps
StepOrders == Perms(5)

C10_DatasetImmutable == pc \in {"serving", "responded"} => DF = loaded

C10_Witness ==
    /\ Served
    /\ Len(DF.rows) = MaxRows
    /\ out.filtered # DF.rows
    /\ out.row_count = Len(DF.rows)

\* C6: two responses to requests with the same year parameter carry the
\* same yearly summary, whatever the other parameters of the two requests.
C6_SummaryDependsOnYearOnly ==
    (Served /\ prev.on /\ prev.year = args.year) =>
        out.yearly_summary = prev.yearly_summary

C6_Witness ==
    /\ Served /\ prev.on /\ prev.year = args.year
    /\ YearSet(variant, args.year) /\ IntOk(args.year)
    /\ Strip(args.keyword) # <<>>
    /\ out.yearly_summary.total_articles > out.row_count
    /\ Len(out.yearly_summary.summary_rows) = 2

\* the Dataset rows the year parameter selects: all of them when it is
\* unset or no number
YearMatches ==
    {i \in 1..Len(DF.rows) :
        (YearSet(variant, out.selected_year) /\ IntOk(out.selected_year)) =>
            DF.rows[i].Year = IntVal(out.selected_year)}

Labelled == {i \in YearMatches : DF.rows[i].sentiment_label # NullStr}

RECURSIVE SumOfCounts(_)
SumOfCounts(rs) == IF rs = <<>> THEN 0 ELSE Head(rs).Count + SumOfCounts(Tail(rs))

\* C7: with no row matching the year, no label attribute or only null
\* labels the summary is the empty one; otherwise the total is the sum of
\* the breakdown counts, the breakdown is by count descending and the
\* dominant label has a maximal count.
C7_SummaryEmptyOrConsistent ==
    Served =>
        LET s == out.yearly_summary
        IN  IF YearMatches = {} \/ ~DF.hasLabel \/ Labelled = {}
            THEN s = EmptySummary
            ELSE /\ s.total_articles = Cardinality(Labelled)
                 /\ s.total_articles = SumOfCounts(s.summary_rows)
                 /\ \A i \in 1..Len(s.summary_rows) :
                       /\ s.summary_rows[i].Count =
                            Cardinality({k \in Labelled :
                                DF.rows[k].sentiment_label = s.summary_rows[i].Sentiment})
                       /\ s.summary_rows[i].Count > 0
                       /\ i > 1 => s.summary_rows[i - 1].Count >= s.summary_rows[i].Count
                 /\ s.dominant_label = s.summary_rows[1].Sentiment
                 /\ \A l \in Labels :
                       Cardinality({k \in Labelled : DF.rows[k].sentiment_label = l})
                           <= s.summary_rows[1].Count

\* a year without rows, answered with the empty summary
C7_Witness ==
    /\ Served
    /\ DF.hasLabel /\ Len(DF.rows) > 0
    /\ YearMatches = {}
    /\ out.yearly_summary = EmptySummary

\* a breakdown of two labels with different counts, a null label beside them
C7_WitnessBreakdown ==
    /\ Served
    /\ Len(out.yearly_summary.summary_rows) = 2
    /\ out.yearly_summary.summary_rows[1].Count > out.yearly_summary.summary_rows[2].Count

\* the distinct non-null years of the Dataset
YearsOfDataset == {DF.rows[i].Year : i \in 1..Len(DF.rows)} \ {NA}

TrendYears == {out.trend[i].year : i \in 1..Len(out.trend)}

TrendWellFormed ==
    /\ TrendYears = YearsOfDataset
    /\ Len(out.trend) = Cardinality(YearsOfDataset)
    /\ \A i \in 1..(Len(out.trend) - 1) : out.trend[i].year < out.trend[i + 1].year

SameTrendAsBefore == (prev.on /\ prev.year # NullStr) => out.trend = prev.trend

\* C8 as stated: the trend has one entry per distinct non-null Year of the
\* full Dataset, in strictly ascending year order, the same for every
\* request.
C8_TrendOnePerYear == Served => (TrendWellFormed /\ SameTrendAsBefore)

\* C8 amended: that holds when the Dataset has the score attribute;
\* without it the trend is empty for every request.
C8_TrendOnePerYearGivenScores ==
    Served =>
        /\ IF DF.hasScore THEN TrendWellFormed ELSE out.trend = <<>>
        /\ SameTrendAsBefore

C8_Witness ==
    /\ Served /\ DF.hasScore
    /\ prev.on /\ prev.year # NullStr
    /\ Len(out.trend) = 2
    /\ out.row_count < Len(DF.rows)

\* the rows that contribute to the mean of a year
Contributing(year) ==
    {i \in 1..Len(DF.rows) :
        DF.rows[i].Year = year /\ DF.rows[i].sentiment_score_signed # NaN}

RECURSIVE SumOver(_)
SumOver(I) ==
    IF I = {} THEN 0
    ELSE LET i == CHOOSE k \in I : TRUE
         IN  DF.rows[i].sentiment_score_signed + SumOver(I \ {i})

\* m is the average of the scores of I, rounded to the unit of round(4)
IsRoundedMean(m, I) ==
    /\ 2 * (m * Cardinality(I) - SumOver(I)) <= Cardinality(I)
    /\ 2 * (SumOver(I) - m * Cardinality(I)) <= Cardinality(I)

\* C9 as stated: a year without a contributing row is not in the trend,
\* and every entry carries a number, the average of the year's non-null
\* scores.
C9_NoEntryWithoutScores ==
    Served =>
        \A i \in 1..Len(out.trend) :
            /\ Contributing(out.trend[i].year) # {}
            /\ out.trend[i].mean # NaN
            /\ IsRoundedMean(out.trend[i].mean, Contributing(out.trend[i].year))

\* C9 amended: rows with a null Year or score contribute to no mean; a year
\* all of whose rows have a null score is in the trend with the mean NaN;
\* every other entry carries the average of the year's non-null scores.
C9_NaNEntryWithoutScores ==
    (Served /\ DF.hasScore) =>
        /\ \A y \in YearsOfDataset : \E i \in 1..Len(out.trend) : out.trend[i].year = y
        /\ \A i \in 1..Len(out.trend) :
              /\ out.trend[i].year # NA
              /\ IF Contributing(out.trend[i].year) = {}
                 THEN out.trend[i].mean = NaN
                 ELSE /\ out.trend[i].mean # NaN
                      /\ IsRoundedMean(out.trend[i].mean, Contributing(out.trend[i].year))

\* a year with a null and a non-null score beside a year with null scores only
C9_Witness ==
    /\ Served /\ DF.hasScore
    /\ \E i \in 1..Len(out.trend) : out.trend[i].mean = NaN
    /\ \E i \in 1..Len(DF.rows) : DF.rows[i].Year = NA

\* C11 as stated: the body of load_data runs once in the life of the
\* process and before anything is served: nothing is drawn or answered
\* before a load has completed, whatever is served is served from the frame
\* of that one load, and no request or interaction runs the body again.
C11_LoadedOnceBeforeServing ==
    /\ loads <= 1
    /\ loads = 0 => (out = NoOut /\ pc = "boot")
    /\ pc \in {"serving", "responded"} => (loads = 1 /\ DF = loaded /\ DF # NoFrame)

\* C12 as stated: once a load has failed the process serves nothing, then
\* or later, and load_data is not run a second time.
C12_LoadFailureFatal ==
    failed => (pc \notin {"serving", "responded"} /\ out = NoOut /\ loads = 1)

\* the request in hand with the year left at "all"
WithYearAll == [args EXCEPT !.year = ALL]

\* the request in hand carries a year that is set and that int() rejects
YearUnparseable ==
    YearSet(variant, SelectedYear(variant, args.year)) /\ ~IntOk(args.year)

\* C13: a request whose year value is no integer is answered like the same
\* request with year = "all": the year raises no error (an error response
\* comes from the keyword alone), the filtered rows are those of the
\* year = "all" request, each of them passes the symbol, range and keyword
\* predicates, and the yearly summary is the one of the whole Dataset.
C13_UnparseableYearSkipped ==
    (Served /\ YearUnparseable) =>
        /\ out.error = KeywordRaises(Strip(args.keyword))
        /\ ~out.error =>
              /\ SameRows(out.filtered,
                      Filtered(variant, DF, MIN_SCORE, MAX_SCORE, WithYearAll))
              /\ \A i \in 1..Len(out.filtered) :
                     /\ SymbolHolds(out.filtered[i])
                     /\ RangeHolds(out.filtered[i])
                     /\ KeywordHolds(out.filtered[i])
              /\ out.yearly_summary = compute_yearly_summary(variant, DF, ALL, tie)

\* rows of two years, some of them removed by the other predicates, and a
\* summary that counts rows of both years
C13_Witness ==
    /\ Served /\ YearUnparseable /\ ~out.error
    /\ SymbolSet(variant, args.symbol) /\ args.sent_min # Absent
    /\ Strip(args.keyword) # <<>>
    /\ out.row_count = 1
    /\ Len(DF.rows) = MaxRows
    /\ \E i, j \in 1..Len(DF.rows) : DF.rows[i].Year # DF.rows[j].Year
    /\ out.yearly_summary.total_articles = Len(DF.rows)

\* the request in hand supplies a news_id
IdSupplied == Strip(args.news_id) # <<>>

\* the positions of the filtered set whose id, as a string, is the news_id
\* of the request
IdHits == {i \in 1..Len(out.filtered) : IdStr(out.filtered[i].news_id) = Strip(args.news_id)}

\* C14: the filtered set is sorted by Date descending, the table is its
\* first min(HeadLimit, n) rows, the row count is n, the size of the whole
\* filtered set, and a selected record is a row of the whole filtered set:
\* when rows of the set have the requested id, the first of them is
\* selected, whether or not the table shows it.
C14_TableIsHeadDetailFromFullSet ==
    Served =>
        LET n == Len(Filtered(variant, DF, MIN_SCORE, MAX_SCORE, args))
            m == IF n < HeadLimit THEN n ELSE HeadLimit
        IN  /\ Len(out.filtered) = n
            /\ DateSorted(out.filtered)
            /\ out.row_count = n
            /\ Len(out.table_rows) = m
            /\ \A i \in 1..m : out.table_rows[i] = out.filtered[i]
            /\ ~IdSupplied => out.selected_row = NoRow
            /\ (IdSupplied /\ IdHits # {}) =>
                  out.selected_row = out.filtered[SetMin(IdHits)]
            /\ out.selected_row # NoRow =>
                  \E i \in 1..n : out.filtered[i] = out.selected_row

\* the requested record lies behind the last row of the table
C14_Witness ==
    /\ Served /\ IdSupplied
    /\ out.row_count = MaxRows
    /\ Len(out.table_rows) = HeadLimit
    /\ out.selected_row # NoRow
    /\ \A i \in 1..Len(out.table_rows) : out.table_rows[i] # out.selected_row

\* the request in hand without its news_id
WithoutId == [args EXCEPT !.news_id = <<>>]

\* C15 as stated: with a news_id supplied, the returned rows are the rows
\* that pass the other predicates and whose id, as a string, equals the
\* supplied string; a record is selected exactly when there is such a row,
\* and its id, as a string, is the supplied string.
C15_IdByStringEquality ==
    (Served /\ IdSupplied) =>
        LET matching ==
                SelectSeq(Filtered(variant, DF, MIN_SCORE, MAX_SCORE, WithoutId),
                    LAMBDA r : IdStr(r.news_id) = Strip(args.news_id))
        IN  /\ SameRows(out.filtered, matching)
            /\ IF matching = <<>>
               THEN out.selected_row = NoRow
               ELSE /\ out.selected_row # NoRow
                    /\ IdStr(out.selected_row.news_id) = Strip(args.news_id)

====
